---------------------------- MODULE Spec2Model ----------------------------
(***************************************************************************)
(* A model of the git-cinnabar helper's Rust command front end             *)
(* (src/helper/main.rs): `git cinnabar data|hg2git|git2hg`.                *)
(*                                                                         *)
(* Byte strings are sequences of integers 0..255.  An Option<T> is a       *)
(* sequence of length <= 1: None is <<>>, Some(x) is <<x>>.  A panic       *)
(* (unwrap on None, slice index out of range, panic!) ends the process     *)
(* without returning to git_cinnabar.                                      *)
(***************************************************************************)
EXTENDS Integers, Sequences, FiniteSets, TLC

VARIABLES
    pc,          \* position in git_cinnabar / do_hg2git / do_git2hg / do_data
    args,        \* the command line after "--command"
    store,       \* the repository: notes trees, objects, committish resolution
    out,         \* bytes written to stdout
    err,         \* messages written to stderr, in order
    status,      \* process exit status, None while running
    initialized, \* init_cinnabar and init_cinnabar_2 have run
    tornDown,    \* done_cinnabar has run
    ret,         \* the Result returned by do_*: None, <<"Ok">> or <<"Err", msg>>
    idx,         \* loop index of the current `for` loop
    loc,         \* locals of do_data's changeset arm before the buffer is built
    changeset,   \* the `changeset` buffer (Vec) of do_data
    patched,     \* the `patched` buffer of the patch loop
    last_end,    \* the patch loop's cursor
    candidate,   \* the slice `changeset` of the `while let` loop
    iters,       \* bodies of the `while let` loop entered so far
    hashes       \* hash computations made by the `while let` loop so far

vars == <<pc, args, store, out, err, status, initialized, tornDown, ret, idx,
          loc, changeset, patched, last_end, candidate, iters, hashes>>

\* the locals of do_data's changeset arm
csVars == <<loc, changeset, patched, last_end, candidate, iters, hashes>>

----------------------------------------------------------------------------
(* Bounds of the model *)

\* longest list of sha1s / committishes given to hg2git and git2hg
MaxBatch == 2
\* most trailing null bytes appended to a changeset when it was created
MaxPad == 2
\* number of distinct values of the modelled hash function
HashMod == 3

----------------------------------------------------------------------------
(* Program constants *)

\* `abbrev.unwrap_or(40)`: hex digits of a full hash
FullHex == 40
\* `.unwrap_or(12)`: the width of `--abbrev` given without a value
DefaultAbbrev == 12
\* `3..=40 => Ok(AbbrevSize(value))`
MinAbbrev == 3
\* b'\0', the separator of extra, files and patch
NUL == 0
\* b'\n'
LF == 10
\* b' '
SP == 32
\* b','
COMMA == 44
\* exit status of git_cinnabar on Err(msg) and on an argument error
ExitFailure == 1

----------------------------------------------------------------------------
(* Option, byte strings *)

None == <<>>
Some(x) == <<x>>
IsSome(o) == Len(o) = 1
IsNone(o) == Len(o) = 0
Unwrap(o) == o[1]

Take(s, n) == SubSeq(s, 1, n)
Drop(s, n) == SubSeq(s, n + 1, Len(s))
\* Rust's &s[a..b] for 0 <= a <= b <= len (0-based, end exclusive)
Slice(s, a, b) == SubSeq(s, a + 1, b)
\* whether &s[a..b] is in range; out of range is a panic
SliceOk(s, a, b) == a <= b /\ b <= Len(s)

Min(a, b) == IF a <= b THEN a ELSE b

RECURSIVE Concat(_)
Concat(ss) == IF ss = <<>> THEN <<>> ELSE ss[1] \o Concat(Tail(ss))

RECURSIVE Join(_, _)
\* [&[u8]]::join(sep)
Join(ss, sep) ==
    IF ss = <<>> THEN <<>>
    ELSE IF Len(ss) = 1 THEN ss[1]
    ELSE ss[1] \o sep \o Join(Tail(ss), sep)

\* slice::split(|c| *c == b): the pieces between occurrences of b; an empty
\* slice gives one empty piece
Split(s, b) ==
    LET at == {i \in 1..Len(s) : s[i] = b}
        \* the position of the k-th separator; 0 and Len(s) + 1 at the ends
        Pos(k) == IF k = 0 THEN 0
                  ELSE IF k > Cardinality(at) THEN Len(s) + 1
                  ELSE CHOOSE i \in at : Cardinality({j \in at : j < i}) = k - 1
    IN  [k \in 1..(Cardinality(at) + 1) |-> SubSeq(s, Pos(k - 1) + 1, Pos(k) - 1)]

\* position of the first b in s, 0 when there is none
FirstIndex(s, b) ==
    IF \E i \in 1..Len(s) : s[i] = b
    THEN CHOOSE i \in 1..Len(s) : s[i] = b /\ \A j \in 1..(i - 1) : s[j] # b
    ELSE 0

\* util::SliceExt::split2(b): Some((before, after)) around the first b
Split2(s, b) ==
    LET i == FirstIndex(s, b)
    IN  IF i = 0 THEN None ELSE Some(<<Take(s, i - 1), Drop(s, i)>>)

\* util::SliceExt::split3(b): Some((a, b, rest)) around the first two b
Split3(s, b) ==
    LET p == Split2(s, b)
    IN  IF IsNone(p) THEN None
        ELSE LET q == Split2(Unwrap(p)[2], b)
             IN  IF IsNone(q) THEN None
                 ELSE Some(<<Unwrap(p)[1], Unwrap(q)[1], Unwrap(q)[2]>>)

\* bstr lines(): pieces ended by \n; a final piece without \n is a line too
Lines(s) ==
    LET ps == Split(s, LF)
    IN  IF ps[Len(ps)] = <<>> THEN Take(ps, Len(ps) - 1) ELSE ps

RECURSIVE LexLess(_, _)
\* Ord for [u8]: lexicographic, a proper prefix is smaller
LexLess(a, b) ==
    IF b = <<>> THEN FALSE
    ELSE IF a = <<>> THEN TRUE
    ELSE IF a[1] # b[1] THEN a[1] < b[1]
    ELSE LexLess(Tail(a), Tail(b))

LexLeq(a, b) == a = b \/ LexLess(a, b)

RECURSIVE InsertSorted(_, _)
InsertSorted(x, ss) ==
    IF ss = <<>> THEN <<x>>
    ELSE IF LexLess(x, ss[1]) THEN <<x>> \o ss
    ELSE <<ss[1]>> \o InsertSorted(x, Tail(ss))

RECURSIVE Sort(_)
\* Vec::sort() of byte strings (stable)
Sort(ss) == IF ss = <<>> THEN <<>>
            ELSE LET n == Len(ss)
                 IN  InsertSorted(ss[n], Sort(Take(ss, n - 1)))

IsDigit(c) == c >= 48 /\ c <= 57

RECURSIVE DecimalValue(_, _)
DecimalValue(s, acc) ==
    IF s = <<>> THEN acc ELSE DecimalValue(Tail(s), acc * 10 + (s[1] - 48))

\* usize::from_str / usize::from_bytes: Some(n) for a non-empty run of digits
ParseUsize(s) ==
    IF s # <<>> /\ \A i \in 1..Len(s) : IsDigit(s[i])
    THEN Some(DecimalValue(s, 0))
    ELSE None

HexDigitChar(n) == IF n < 10 THEN 48 + n ELSE 87 + n

IsHexChar(c) == IsDigit(c) \/ (c >= 97 /\ c <= 102) \/ (c >= 65 /\ c <= 70)

HexCharValue(c) ==
    IF IsDigit(c) THEN c - 48 ELSE IF c >= 97 THEN c - 87 ELSE c - 55

\* Display of an object id: two lowercase hex digits per byte
Hex(bytes) ==
    [i \in 1..(2 * Len(bytes)) |->
        LET b == bytes[(i + 1) \div 2]
        IN  HexDigitChar(IF i % 2 = 1 THEN b \div 16 ELSE b % 16)]

\* hg_object_id::from_bytes: Some(id) for FullHex hex digits
FromHex(s) ==
    IF Len(s) = FullHex /\ \A i \in 1..Len(s) : IsHexChar(s[i])
    THEN Some([i \in 1..(FullHex \div 2) |->
                 16 * HexCharValue(s[2 * i - 1]) + HexCharValue(s[2 * i])])
    ELSE None

RECURSIVE PercentDecode(_)
\* percent_encoding::percent_decode: %XX with two hex digits is one byte,
\* every other byte stands for itself
PercentDecode(s) ==
    IF s = <<>> THEN <<>>
    ELSE IF s[1] = 37 /\ Len(s) >= 3 /\ IsHexChar(s[2]) /\ IsHexChar(s[3])
    THEN <<16 * HexCharValue(s[2]) + HexCharValue(s[3])>>
         \o PercentDecode(Drop(s, 3))
    ELSE <<s[1]>> \o PercentDecode(Tail(s))

Zeros(n) == [i \in 1..n |-> 48]

TrailingNuls(s) ==
    IF \A i \in 1..Len(s) : s[i] = NUL THEN Len(s)
    ELSE Len(s) - (CHOOSE i \in 1..Len(s) :
                      s[i] # NUL /\ \A j \in (i + 1)..Len(s) : s[j] = NUL)

EndsInNul(s) == s # <<>> /\ s[Len(s)] = NUL

----------------------------------------------------------------------------
(* Object ids and the environment *)

IdLen == FullHex \div 2

\* object_id::null() / hg_object_id::null()
NullId == [i \in 1..IdLen |-> 0]

\* a non-null id for each a >= 1
MkId(a) == [i \in 1..IdLen |-> (a * (i + 6)) % 256]

H1 == MkId(1)
H2 == MkId(2)
H3 == MkId(3)
G1 == MkId(11)
G2 == MkId(12)
P1 == MkId(13)
P2 == MkId(14)
P3 == MkId(15)
N1 == MkId(21)
M1 == MkId(22)

HgRevs == {H1, H2}
GitOids == {G1, G2, P1, P2, P3}
ObjectIds == {G1, G2, N1, M1}
Committish == {"HEAD", "tip", "nope"}

S_unknown_revision ==
    <<85, 110, 107, 110, 111, 119, 110, 32, 114, 101, 118, 105, 115, 105,
      111, 110, 58, 32>>                                  \* "Unknown revision: "
S_too_large ==
    <<118, 97, 108, 117, 101, 32, 116, 111, 111, 32, 108, 97, 114, 103, 101>>
S_too_small ==
    <<118, 97, 108, 117, 101, 32, 116, 111, 111, 32, 115, 109, 97, 108, 108>>
S_marker == <<1, 10>>                                     \* b"\x01\n"

\* AbbrevHgObjectId::to_git (libcinnabar): the hg2git mapping
ToGit(rev) == store.hg2git[rev]

\* object_id::to_hg (libcinnabar): the git2hg mapping
ToHg(oid) == store.git2hg[oid]

\* repo_get_oid_committish == 0 and the oid it fills in
ResolveCommittish(c) == store.refs[c]

\* libgit Object::read: the object, or None when the store has none
ObjectRead(oid) == store.objects[oid]

Blob(bytes) == [kind |-> "blob", bytes |-> bytes]
Commit(bytes) == [kind |-> "commit", bytes |-> bytes]

----------------------------------------------------------------------------
(* Argument parsing *)

\* impl FromStr for AbbrevSize
AbbrevSize_from_str(s) ==
    LET value == ParseUsize(s)
    IN  IF IsNone(value) THEN <<"Err", s>>
        ELSE IF Unwrap(value) >= MinAbbrev /\ Unwrap(value) <= FullHex
             THEN <<"Ok", Unwrap(value)>>
        ELSE IF Unwrap(value) > FullHex THEN <<"Err", S_too_large>>
        ELSE <<"Err", S_too_small>>

\* the parsed `abbrev: Option<Vec<AbbrevSize>>` of Hg2Git / Git2Hg
ParsedAbbrev(a) ==
    IF IsNone(a) THEN None
    ELSE Some([i \in 1..Len(Unwrap(a)) |-> AbbrevSize_from_str(Unwrap(a)[i])[2]])

AbbrevArgOk(a) ==
    IsNone(a) \/ \A i \in 1..Len(Unwrap(a)) :
                    AbbrevSize_from_str(Unwrap(a)[i])[1] = "Ok"

\* a width that is 12 whenever no value is given, `--abbrev` or not
AbbrevWidthAlways12(a) ==
    IF IsSome(a) /\ Len(Unwrap(a)) >= 1
    THEN AbbrevSize_from_str(Unwrap(a)[1])[2] ELSE DefaultAbbrev

\* `abbrev.map(|v| v.get(0).map(|a| a.0).unwrap_or(12))` in git_cinnabar,
\* then `abbrev.unwrap_or(40)` in do_hg2git / do_git2hg
AbbrevWidth(a) ==
    LET parsed == ParsedAbbrev(a)
        mapped == IF IsNone(parsed) THEN None
                  ELSE IF Len(Unwrap(parsed)) >= 1 THEN Some(Unwrap(parsed)[1])
                  ELSE Some(DefaultAbbrev)
    IN  IF IsSome(mapped) THEN Unwrap(mapped) ELSE FullHex

\* structopt: `--abbrev=<bad>` and `-c -m` together are usage errors
ArgsOk ==
    CASE args.cmd \in {"hg2git", "git2hg"} -> AbbrevArgOk(args.abbrev)
      [] args.cmd = "data" -> ~(args.changeset /\ args.manifest)

Locals == [git_obj |-> None, metadata |-> <<>>, lines |-> <<>>, body |-> <<>>,
           parents |-> <<>>, author |-> None, committer |-> None,
           hg_author |-> <<>>, hg_timestamp |-> <<>>, hg_utcoffset |-> <<>>,
           hg_committer |-> None, node |-> None, manifest |-> NullId,
           extra |-> None, files |-> None, patch |-> None, parts |-> <<>>]

PanicStatuses == {101, 134}

\* a panic: the message goes to stderr and the process ends abnormally
\* (unwinding out of main, or an abort at the extern "C" frame), without
\* returning to git_cinnabar
Panic(msg) ==
    /\ pc' = "exit"
    /\ err' = Append(err, <<"panic", msg>>)
    /\ \E s \in PanicStatuses : status' = Some(s)

----------------------------------------------------------------------------
(* git_cinnabar *)

\* CinnabarCommand::from_iter_safe and the `Err(e) if e.use_stderr()` arm
ParseArgs ==
    /\ pc = "parse"
    /\ IF ArgsOk
       THEN /\ pc' = "init"
            /\ UNCHANGED <<err, status>>
       ELSE /\ pc' = "exit"
            /\ err' = Append(err, <<"usage", <<>>>>)
            /\ status' = Some(ExitFailure)
    /\ UNCHANGED <<args, store, out, initialized, tornDown, ret, idx, csVars>>

\* init_cinnabar(argv0); init_cinnabar_2(); and the dispatch on `command`
InitCinnabar ==
    /\ pc = "init"
    /\ initialized' = TRUE
    /\ pc' = args.cmd
    /\ idx' = 1
    /\ UNCHANGED <<args, store, out, err, status, tornDown, ret, csVars>>

\* an unmapped sha1 printed back as it came
Hg2GitHexOrEcho(sha1) ==
    Hex(IF IsSome(ToGit(sha1)) THEN Unwrap(ToGit(sha1)) ELSE sha1)

\* `format!("{}", sha1.to_git().unwrap_or_else(object_id::null))`
Hg2GitHex(sha1) ==
    Hex(IF IsSome(ToGit(sha1)) THEN Unwrap(ToGit(sha1)) ELSE NullId)

\* the `note` of one committish, and
\* `format!("{}", note.unwrap_or_else(hg_object_id::null))`
Git2HgHex(c) ==
    LET oid == ResolveCommittish(c)
        note == IF IsSome(oid) THEN ToHg(Unwrap(oid)) ELSE None
    IN  Hex(IF IsSome(note) THEN Unwrap(note) ELSE NullId)

\* one pass of do_hg2git's `for sha1 in &sha1s`
Hg2GitLine ==
    /\ pc = "hg2git"
    /\ idx <= Len(args.items)
    /\ out' = out \o Take(Hg2GitHex(args.items[idx]), AbbrevWidth(args.abbrev))
                  \o <<LF>>
    /\ idx' = idx + 1
    /\ UNCHANGED <<pc, args, store, err, status, initialized, tornDown, ret,
                   csVars>>

\* do_hg2git's Ok(())
Hg2GitReturn ==
    /\ pc = "hg2git"
    /\ idx > Len(args.items)
    /\ ret' = <<"Ok">>
    /\ pc' = "done"
    /\ UNCHANGED <<args, store, out, err, status, initialized, tornDown, idx,
                   csVars>>

\* one pass of do_git2hg's `for c in &committish` (ensure_notes(&mut git2hg)
\* before the first pass only loads the notes tree)
Git2HgLine ==
    /\ pc = "git2hg"
    /\ idx <= Len(args.items)
    /\ out' = out \o Take(Git2HgHex(args.items[idx]), AbbrevWidth(args.abbrev))
                  \o <<LF>>
    /\ idx' = idx + 1
    /\ UNCHANGED <<pc, args, store, err, status, initialized, tornDown, ret,
                   csVars>>

\* do_git2hg's Ok(())
Git2HgReturn ==
    /\ pc = "git2hg"
    /\ idx > Len(args.items)
    /\ ret' = <<"Ok">>
    /\ pc' = "done"
    /\ UNCHANGED <<args, store, out, err, status, initialized, tornDown, idx,
                   csVars>>

\* done_cinnabar()
DoneCinnabar ==
    /\ pc = "done"
    /\ tornDown' = TRUE
    /\ pc' = "report"
    /\ UNCHANGED <<args, store, out, err, status, initialized, ret, idx, csVars>>

\* `match ret { Ok(()) => 0, Err(msg) => { eprintln!("{}", msg); 1 } }`
Report ==
    /\ pc = "report"
    /\ IF ret[1] = "Ok"
       THEN /\ status' = Some(0)
            /\ err' = err
       ELSE /\ status' = Some(ExitFailure)
            /\ err' = Append(err, <<"msg", ret[2]>>)
    /\ pc' = "exit"
    /\ UNCHANGED <<args, store, out, initialized, tornDown, ret, idx, csVars>>

----------------------------------------------------------------------------
(* do_data: resolution, manifest and file arms *)

\* `rev.to_git().ok_or_else(|| format!("Unknown revision: {}", rev))?` and
\* the `match typ`
DataResolve ==
    /\ pc = "data"
    /\ LET git_obj == ToGit(args.rev)
       IN  IF IsNone(git_obj)
           THEN /\ ret' = <<"Err", S_unknown_revision \o Hex(args.rev)>>
                /\ pc' = "done"
                /\ loc' = loc
           ELSE /\ ret' = ret
                /\ loc' = [loc EXCEPT !.git_obj = git_obj]
                /\ pc' = IF args.changeset THEN "cs_note"
                         ELSE IF args.manifest THEN "manifest"
                         ELSE "file_meta"
    /\ UNCHANGED <<args, store, out, err, status, initialized, tornDown, idx,
                   changeset, patched, last_end, candidate, iters, hashes>>

\* HgObjectType::Manifest
ManifestDump ==
    /\ pc = "manifest"
    /\ LET buf == store.manifests[Unwrap(loc.git_obj)]
       IN  IF IsNone(buf)
           THEN /\ Panic("unwrap")
                /\ UNCHANGED <<out, ret>>
           ELSE /\ out' = out \o Unwrap(buf)
                /\ ret' = <<"Ok">>
                /\ pc' = "done"
                /\ UNCHANGED <<err, status>>
    /\ UNCHANGED <<args, store, initialized, tornDown, idx, csVars>>

\* a header without its closing marker
FileHeaderOpenOnly(bytes) == S_marker \o bytes

\* the three write_all calls of the `.map(|o| ...)` closure
FileHeader(bytes) == S_marker \o bytes \o S_marker

\* HgObjectType::File, the `.map(|o| ...)` closure over the metadata note
FileMeta ==
    /\ pc = "file_meta"
    /\ LET note == store.files_meta[args.rev]
           o == IF IsSome(note) THEN ObjectRead(Unwrap(note)) ELSE None
       IN  IF IsNone(o)
           THEN /\ pc' = "file_content"
                /\ UNCHANGED <<out, err, status>>
           ELSE IF Unwrap(o).kind # "blob"
           THEN /\ out' = out \o S_marker
                /\ Panic("unwrap")
           ELSE /\ out' = out \o FileHeader(Unwrap(o).bytes)
                /\ pc' = "file_content"
                /\ UNCHANGED <<err, status>>
    /\ UNCHANGED <<args, store, initialized, tornDown, ret, idx, csVars>>

\* HgObjectType::File, the `.and_then(|_| ...)` closure over the file itself
FileContent ==
    /\ pc = "file_content"
    /\ LET o == ObjectRead(Unwrap(loc.git_obj))
       IN  IF IsNone(o) \/ (IsSome(o) /\ Unwrap(o).kind # "blob")
           THEN /\ Panic("unwrap")
                /\ UNCHANGED <<out, ret>>
           ELSE /\ out' = out \o Unwrap(o).bytes
                /\ ret' = <<"Ok">>
                /\ pc' = "done"
                /\ UNCHANGED <<err, status>>
    /\ UNCHANGED <<args, store, initialized, tornDown, idx, csVars>>

----------------------------------------------------------------------------
(* do_data: the changeset arm, pure parts *)

S_committer_colon ==
    <<99, 111, 109, 109, 105, 116, 116, 101, 114, 58>>    \* "committer:"
K_parent == <<112, 97, 114, 101, 110, 116>>               \* "parent"
K_author == <<97, 117, 116, 104, 111, 114>>               \* "author"
K_committer == <<99, 111, 109, 109, 105, 116, 116, 101, 114>> \* "committer"
K_changeset == <<99, 104, 97, 110, 103, 101, 115, 101, 116>>  \* "changeset"
K_manifest == <<109, 97, 110, 105, 102, 101, 115, 116>>   \* "manifest"
K_extra == <<101, 120, 116, 114, 97>>                     \* "extra"
K_files == <<102, 105, 108, 101, 115>>                    \* "files"
K_patch == <<112, 97, 116, 99, 104>>                      \* "patch"

\* position of the first occurrence of the two bytes "\n\n", 0 when none
FirstBlankLine(s) ==
    IF \E i \in 1..(Len(s) - 1) : s[i] = LF /\ s[i + 1] = LF
    THEN CHOOSE i \in 1..(Len(s) - 1) :
            /\ s[i] = LF /\ s[i + 1] = LF
            /\ \A j \in 1..(i - 1) : ~(s[j] = LF /\ s[j + 1] = LF)
    ELSE 0

\* `commit.split2(&b"\n\n"[..])`
SplitHeaderBody(s) ==
    LET i == FirstBlankLine(s)
    IN  IF i = 0 THEN None ELSE Some(<<Take(s, i - 1), Drop(s, i + 1)>>)

RECURSIVE ParseHeader(_, _)
\* `for line in header.lines()`: parents in order, the last author and the
\* last committer; ok is FALSE where an unwrap panics
ParseHeader(lines, acc) ==
    IF lines = <<>> \/ lines[1] = <<>> THEN acc
    ELSE LET kv == Split2(lines[1], SP)
         IN  IF IsNone(kv) THEN [acc EXCEPT !.ok = FALSE]
             ELSE LET k == Unwrap(kv)[1]
                      v == Unwrap(kv)[2]
                  IN  IF k = K_parent
                      THEN IF IsNone(FromHex(v)) THEN [acc EXCEPT !.ok = FALSE]
                           ELSE ParseHeader(Tail(lines),
                                  [acc EXCEPT !.parents =
                                      Append(@, Unwrap(FromHex(v)))])
                      ELSE IF k = K_author
                      THEN ParseHeader(Tail(lines),
                                       [acc EXCEPT !.author = Some(v)])
                      ELSE IF k = K_committer
                      THEN ParseHeader(Tail(lines),
                                       [acc EXCEPT !.committer = Some(v)])
                      ELSE ParseHeader(Tail(lines), acc)

\* position of the last b in s, 0 when there is none
LastIndex(s, b) ==
    IF \E i \in 1..Len(s) : s[i] = b
    THEN CHOOSE i \in 1..Len(s) :
            s[i] = b /\ \A j \in (i + 1)..Len(s) : s[j] # b
    ELSE 0

RECURSIVE NatToDecimal(_)
NatToDecimal(n) ==
    IF n < 10 THEN <<48 + n>>
    ELSE Append(NatToDecimal(n \div 10), 48 + (n % 10))

IntToDecimal(n) == IF n < 0 THEN <<45>> \o NatToDecimal(-n) ELSE NatToDecimal(n)

\* hg_data::Authorship::from_git_bytes(line).to_hg_parts(): a git
\* "who timestamp +HHMM" line as Mercurial's who, timestamp and offset in
\* seconds west of UTC
ToHgParts(line) ==
    LET j == LastIndex(line, SP)
        tz == Drop(line, j)
        front == Take(line, j - 1)
        i == LastIndex(front, SP)
        hhmm == DecimalValue(Tail(tz), 0)
        secs == ((hhmm \div 100) * 60 + (hhmm % 100)) * 60
    IN  <<Take(front, i - 1), Drop(front, i),
          IntToDecimal(IF tz[1] = 43 THEN -secs ELSE secs)>>

\* hg_data::Authorship::to_hg_bytes()
ToHgBytes(line) ==
    LET parts == ToHgParts(line)
    IN  parts[1] \o <<SP>> \o parts[2] \o <<SP>> \o parts[3]

\* the length of the longest prefix of ss whose members are < b
RECURSIVE PrefixLess(_, _)
PrefixLess(ss, b) ==
    IF ss = <<>> \/ ~LexLess(ss[1], b) THEN 0
    ELSE 1 + PrefixLess(Tail(ss), b)

\* the length of the longest prefix of ss whose members are <= b
RECURSIVE PrefixLeq(_, _)
PrefixLeq(ss, b) ==
    IF ss = <<>> \/ ~LexLeq(ss[1], b) THEN 0
    ELSE 1 + PrefixLeq(Tail(ss), b)

\* the `(Some(extra), Some(hg_committer))` arm: hg_committer already holds
\* "committer:" + value; take_while on `&mut extra` also consumes the first
\* entry it rejects
MergeExtra(extra, hg_committer) ==
    LET entries == Split(extra, NUL)
        n == PrefixLess(entries, S_committer_colon)
        new_extra == Take(entries, n)
        remaining == Drop(entries, Min(n + 1, Len(entries)))
        hg_committer_extra == S_committer_colon \o hg_committer
        kept == Drop(remaining, PrefixLeq(remaining, S_committer_colon))
    IN  Join(new_extra \o <<hg_committer_extra>> \o kept, <<NUL>>)

\* `if extra.is_some() || hg_committer.is_some() { ... }`
ExtraField(extra, committer) ==
    LET hg_committer ==
            IF IsSome(committer)
            THEN Some(S_committer_colon \o Unwrap(committer)) ELSE None
    IN  IF IsNone(extra) /\ IsNone(hg_committer) THEN <<>>
        ELSE <<SP>> \o
             (IF IsNone(hg_committer) THEN Unwrap(extra)
              ELSE IF IsNone(extra) THEN Unwrap(hg_committer)
              ELSE MergeExtra(Unwrap(extra), Unwrap(hg_committer)))

\* `if let Some(files) = files { ... }`
FilesField(files) ==
    IF IsNone(files) THEN <<>>
    ELSE LET sorted == Sort(Split(Unwrap(files), NUL))
         IN  Concat([i \in 1..Len(sorted) |-> <<LF>> \o sorted[i]])

\* the baseline buffer, `let mut changeset = Vec::new(); ...` up to
\* `changeset.extend_from_slice(body)`
Assemble(l) ==
    Hex(l.manifest) \o <<LF>>
    \o l.hg_author \o <<LF>>
    \o l.hg_timestamp \o <<SP>> \o l.hg_utcoffset
    \o ExtraField(l.extra, l.hg_committer)
    \o FilesField(l.files)
    \o <<LF, LF>> \o l.body

RECURSIVE WeightedSum(_, _, _)
\* the sum over positions lo..hi of a weight times the byte, halving the
\* range (the midpoint is bound once, as a value)
WeightedSum(s, lo, hi) ==
    IF lo > hi THEN 0
    ELSE IF lo = hi THEN ((lo % 7) + 1) * (s[lo] + 1)
    ELSE CHOOSE sum \in {WeightedSum(s, lo, mid) + WeightedSum(s, mid + 1, hi)
                            : mid \in {(lo + hi) \div 2}} : TRUE

\* hg_object_id::create(), input(..), result(): a hash with HashMod values
HgHash(input) ==
    CHOOSE h \in {MkId(1 + (WeightedSum(bytes, 1, Len(bytes)) % HashMod))
                     : bytes \in {input}} : TRUE

\* parent slots filled in header order
ParentSlotsUnsorted(hg_parents) ==
    Take(hg_parents \o <<NullId, NullId>>, 2)

\* the two parent slots: `parents.sort()` and
\* `parents.iter().chain(repeat(&hg_object_id::null())).take(2)`
ParentSlots(hg_parents) ==
    Take(Sort(hg_parents) \o <<NullId, NullId>>, 2)

\* the hash of one candidate in the `while let` loop
CandidateHash(hg_parents, bytes) ==
    LET slots == ParentSlots(hg_parents)
    IN  HgHash(slots[1] \o slots[2] \o bytes)

----------------------------------------------------------------------------
(* do_data: the changeset arm, step by step *)

\* ensure_notes(&mut git2hg); get_note(..).as_ref().unwrap();
\* Object::read(note).unwrap(); metadata.blob().unwrap().as_bytes()
CsGetNote ==
    /\ pc = "cs_note"
    /\ LET note == store.notes[Unwrap(loc.git_obj)]
           metadata == IF IsSome(note) THEN ObjectRead(Unwrap(note)) ELSE None
       IN  IF IsNone(metadata) \/ (IsSome(metadata) /\ Unwrap(metadata).kind # "blob")
           THEN /\ Panic("unwrap")
                /\ loc' = loc
           ELSE /\ loc' = [loc EXCEPT !.metadata = Unwrap(metadata).bytes]
                /\ pc' = "cs_commit"
                /\ UNCHANGED <<err, status>>
    /\ UNCHANGED <<args, store, out, initialized, tornDown, ret, idx,
                   changeset, patched, last_end, candidate, iters, hashes>>

\* Object::read(&git_obj).unwrap(); commit.commit().unwrap();
\* commit.split2(b"\n\n").unwrap(); the loop over header.lines()
CsReadCommit ==
    /\ pc = "cs_commit"
    /\ LET commit == ObjectRead(Unwrap(loc.git_obj))
           hb == IF IsSome(commit) /\ Unwrap(commit).kind = "commit"
                 THEN SplitHeaderBody(Unwrap(commit).bytes) ELSE None
           hdr == IF IsSome(hb)
                  THEN ParseHeader(Lines(Unwrap(hb)[1]),
                                   [ok |-> TRUE, parents |-> <<>>,
                                    author |-> None, committer |-> None])
                  ELSE [ok |-> FALSE, parents |-> <<>>,
                        author |-> None, committer |-> None]
       IN  IF ~hdr.ok
           THEN /\ Panic("unwrap")
                /\ loc' = loc
           ELSE /\ loc' = [loc EXCEPT !.body = Unwrap(hb)[2],
                                      !.parents = hdr.parents,
                                      !.author = hdr.author,
                                      !.committer = hdr.committer]
                /\ pc' = "cs_authorship"
                /\ UNCHANGED <<err, status>>
    /\ UNCHANGED <<args, store, out, initialized, tornDown, ret, idx,
                   changeset, patched, last_end, candidate, iters, hashes>>

\* Authorship::from_git_bytes(author.unwrap()).to_hg_parts() and
\* `let hg_committer = if author != committer { ... }`
CsAuthorship ==
    /\ pc = "cs_authorship"
    /\ IF IsNone(loc.author) \/ IsNone(loc.committer)
       THEN /\ Panic("unwrap")
            /\ loc' = loc
       ELSE /\ LET parts == ToHgParts(Unwrap(loc.author))
               IN  loc' = [loc EXCEPT
                       !.hg_author = parts[1],
                       !.hg_timestamp = parts[2],
                       !.hg_utcoffset = parts[3],
                       !.hg_committer =
                           IF loc.author # loc.committer
                           THEN Some(ToHgBytes(Unwrap(loc.committer)))
                           ELSE None,
                       !.lines = Lines(loc.metadata)]
            /\ pc' = "cs_meta"
            /\ UNCHANGED <<err, status>>
    /\ UNCHANGED <<args, store, out, initialized, tornDown, ret, idx,
                   changeset, patched, last_end, candidate, iters, hashes>>

MetadataKeys == {K_changeset, K_manifest, K_author, K_extra, K_files, K_patch}

\* whether one pass of `for line in metadata.lines()` gets through its
\* unwraps and its `_ => panic!("Malformed metadata")`
MetadataLineOk(line) ==
    LET kv == Split2(line, SP)
    IN  /\ IsSome(kv)
        /\ Unwrap(kv)[1] \in MetadataKeys
        /\ Unwrap(kv)[1] \in {K_changeset, K_manifest} =>
               IsSome(FromHex(Unwrap(kv)[2]))

\* the assignment made by one pass of `for line in metadata.lines()`
MetadataAssign(l, line) ==
    LET k == Unwrap(Split2(line, SP))[1]
        v == Unwrap(Split2(line, SP))[2]
    IN  IF k = K_changeset THEN [l EXCEPT !.node = Some(Unwrap(FromHex(v)))]
        ELSE IF k = K_manifest THEN [l EXCEPT !.manifest = Unwrap(FromHex(v))]
        ELSE IF k = K_author THEN [l EXCEPT !.hg_author = v]
        ELSE IF k = K_extra THEN [l EXCEPT !.extra = Some(v)]
        ELSE IF k = K_files THEN [l EXCEPT !.files = Some(v)]
        ELSE IF k = K_patch THEN [l EXCEPT !.patch = Some(v)]
        ELSE l

\* one pass of `for line in metadata.lines()`
CsMetadataLine ==
    /\ pc = "cs_meta"
    /\ loc.lines # <<>>
    /\ IF ~MetadataLineOk(loc.lines[1])
       THEN /\ Panic("Malformed metadata")
            /\ loc' = loc
       ELSE /\ loc' = [MetadataAssign(loc, loc.lines[1])
                          EXCEPT !.lines = Tail(loc.lines)]
            /\ UNCHANGED <<pc, err, status>>
    /\ UNCHANGED <<args, store, out, initialized, tornDown, ret, idx,
                   changeset, patched, last_end, candidate, iters, hashes>>

\* the assembly of the baseline buffer
CsAssemble ==
    /\ pc = "cs_meta"
    /\ loc.lines = <<>>
    /\ changeset' = Assemble(loc)
    /\ pc' = "cs_patch"
    /\ UNCHANGED <<args, store, out, err, status, initialized, tornDown, ret,
                   idx, loc, patched, last_end, candidate, iters, hashes>>

\* `if let Some(patch) = patch { let mut patched = Vec::new();
\* let mut last_end = 0; ...`
CsPatchBegin ==
    /\ pc = "cs_patch"
    /\ IF IsNone(loc.patch)
       THEN /\ pc' = "cs_node"
            /\ UNCHANGED <<loc, patched, last_end>>
       ELSE /\ pc' = "cs_patch_loop"
            /\ loc' = [loc EXCEPT !.parts = Split(Unwrap(loc.patch), NUL)]
            /\ patched' = <<>>
            /\ last_end' = 0
    /\ UNCHANGED <<args, store, out, err, status, initialized, tornDown, ret,
                   idx, changeset, candidate, iters, hashes>>

\* whether one pass of `for part in patch.split(..)` gets through its unwraps
\* and its slice `&changeset[last_end..start]`
PatchPartOk(part, buf, cursor) ==
    LET f == Split3(part, COMMA)
    IN  /\ IsSome(f)
        /\ IsSome(ParseUsize(Unwrap(f)[1]))
        /\ SliceOk(buf, cursor, Unwrap(ParseUsize(Unwrap(f)[1])))
        /\ IsSome(ParseUsize(Unwrap(f)[2]))

\* a cursor left at the edit's start: the replaced bytes are kept
PatchCursorToStart(part) == Unwrap(ParseUsize(Unwrap(Split3(part, COMMA))[1]))

\* `last_end = usize::from_bytes(end).unwrap()`
PatchCursor(part) == Unwrap(ParseUsize(Unwrap(Split3(part, COMMA))[2]))

\* the bytes one pass appends to `patched`
PatchAppend(part, buf, cursor) ==
    LET f == Unwrap(Split3(part, COMMA))
        start == Unwrap(ParseUsize(f[1]))
    IN  Slice(buf, cursor, start) \o PercentDecode(f[3])

\* one pass of `for part in patch.split(|c| *c == b'\0')`
CsPatchPart ==
    /\ pc = "cs_patch_loop"
    /\ loc.parts # <<>>
    /\ IF ~PatchPartOk(loc.parts[1], changeset, last_end)
       THEN /\ Panic("unwrap or slice index")
            /\ UNCHANGED <<loc, patched, last_end>>
       ELSE /\ patched' = patched \o PatchAppend(loc.parts[1], changeset, last_end)
            /\ last_end' = PatchCursor(loc.parts[1])
            /\ loc' = [loc EXCEPT !.parts = Tail(loc.parts)]
            /\ UNCHANGED <<pc, err, status>>
    /\ UNCHANGED <<args, store, out, initialized, tornDown, ret, idx,
                   changeset, candidate, iters, hashes>>

\* `patched.extend_from_slice(&changeset[last_end..]);
\* mem::swap(&mut changeset, &mut patched);`
CsPatchFinish ==
    /\ pc = "cs_patch_loop"
    /\ loc.parts = <<>>
    /\ IF last_end > Len(changeset)
       THEN /\ Panic("slice index")
            /\ UNCHANGED <<changeset, patched>>
       ELSE /\ changeset' = patched \o Slice(changeset, last_end, Len(changeset))
            /\ patched' = changeset
            /\ pc' = "cs_node"
            /\ UNCHANGED <<err, status>>
    /\ UNCHANGED <<args, store, out, initialized, tornDown, ret, idx, loc,
                   last_end, candidate, iters, hashes>>

\* `let node = node.unwrap(); let mut changeset = &changeset[..];`
CsNode ==
    /\ pc = "cs_node"
    /\ IF IsNone(loc.node)
       THEN /\ Panic("unwrap")
            /\ UNCHANGED <<candidate, iters, hashes>>
       ELSE /\ candidate' = changeset
            /\ iters' = 0
            /\ hashes' = 0
            /\ pc' = "cs_loop"
            /\ UNCHANGED <<err, status>>
    /\ UNCHANGED <<args, store, out, initialized, tornDown, ret, idx, loc,
                   changeset, patched, last_end>>

\* a loop that strips every trailing null byte without looking at the hash
HashMatchesNever(bytes) == FALSE

\* `hash.result() == node`, with every parent mapped
HashMatches(bytes) ==
    LET hg_parents == [i \in 1..Len(loc.parents) |-> Unwrap(ToHg(loc.parents[i]))]
    IN  CandidateHash(hg_parents, bytes) = Unwrap(loc.node)

\* one body of `while let [adjusted @ .., b'\0'] = changeset`
CsLoopIter ==
    /\ pc = "cs_loop"
    /\ EndsInNul(candidate)
    /\ iters' = iters + 1
    /\ IF \E i \in 1..Len(loc.parents) : IsNone(ToHg(loc.parents[i]))
       THEN /\ Panic("unwrap")
            /\ UNCHANGED <<candidate, hashes>>
       ELSE /\ hashes' = hashes + 1
            /\ IF HashMatches(candidate)
               THEN /\ pc' = "cs_write"
                    /\ candidate' = candidate
               ELSE /\ pc' = pc
                    /\ candidate' = Take(candidate, Len(candidate) - 1)
            /\ UNCHANGED <<err, status>>
    /\ UNCHANGED <<args, store, out, initialized, tornDown, ret, idx, loc,
                   changeset, patched, last_end>>

\* the `while let` pattern no longer matches
CsLoopExit ==
    /\ pc = "cs_loop"
    /\ ~EndsInNul(candidate)
    /\ pc' = "cs_write"
    /\ UNCHANGED <<args, store, out, err, status, initialized, tornDown, ret,
                   idx, csVars>>

\* `stdout().write_all(&changeset)` and do_data's Ok(())
CsWrite ==
    /\ pc = "cs_write"
    /\ out' = out \o candidate
    /\ ret' = <<"Ok">>
    /\ pc' = "done"
    /\ UNCHANGED <<args, store, err, status, initialized, tornDown, idx,
                   csVars>>

----------------------------------------------------------------------------
(* The repositories and command lines the model runs on *)

SeqsUpTo(S, n) == UNION {[1..k -> S] : k \in 1..n}

S_3 == <<51>>                                             \* "3"
S_x == <<120>>                                            \* "x"

\* `--abbrev` absent, without a value, and with a value
AbbrevArgs ==
    {None, Some(<<>>)} \cup
    {Some(<<v>>) : v \in {<<50>>, S_3, <<49, 50>>, <<52, 48>>, <<52, 49>>, S_x}}
                                   \* "2", "3", "12", "40", "41", "x"

S_author_al ==
    <<97, 108, 32, 60, 97, 64, 120, 62, 32, 53, 32, 43, 48, 48, 48, 48>>
                                                          \* "al <a@x> 5 +0000"
S_author_bob ==
    <<98, 111, 98, 32, 60, 98, 64, 120, 62, 32, 53, 32, 43, 48, 49, 48, 48>>
                                                          \* "bob <b@x> 5 +0100"
S_ann == <<97, 110, 110>>                                 \* "ann"
S_bob == <<98, 111, 98>>                                  \* "bob"
S_msg == <<109, 115, 103>>                                \* "msg"
S_meta == <<99, 111, 112, 121, 58, 32, 97, 10>>           \* "copy: a\n"
S_content == <<104, 105, 10>>                             \* "hi\n"
S_manifest_text == <<102, 0, 49, 10>>                     \* "f\0001\n"
S_bogus == <<98, 111, 103, 117, 115, 32, 49>>             \* "bogus 1"
S_nospace == <<101, 120, 116, 114, 97>>                   \* "extra"

E_a1 == <<97, 58, 49>>                                    \* "a:1"
E_z9 == <<122, 58, 57>>                                   \* "z:9"
S_a1_z9 == <<97, 58, 49, 0, 122, 58, 57>>                 \* "a:1\0z:9"
S_files == <<98, 47, 102, 0, 97, 47, 102>>                \* "b/f\0a/f"

Nuls(k) == [i \in 1..k |-> NUL]

\* a commit object: tree, parents, author, committer, blank line, body
CommitBytes(parents, author, committer, body) ==
    <<116, 114, 101, 101, 32>> \o Hex(G2) \o <<LF>>
    \o Concat([i \in 1..Len(parents) |->
                  K_parent \o <<SP>> \o Hex(parents[i]) \o <<LF>>])
    \o K_author \o <<SP>> \o author \o <<LF>>
    \o K_committer \o <<SP>> \o committer
    \o <<LF, LF>> \o body

\* a git2hg metadata note: "key value" lines
MetadataBytes(lines) == Join(lines, <<LF>>)

MetaLine(key, value) == key \o <<SP>> \o value

\* one "start,end,data" part of a patch
PatchPart(e) ==
    NatToDecimal(e[1]) \o <<COMMA>> \o NatToDecimal(e[2]) \o <<COMMA>> \o e[3]

PatchBytes(edits) == Join([i \in 1..Len(edits) |-> PatchPart(edits[i])], <<NUL>>)

\* the hg ids of git commits: G1 is the requested revision, P3 has no mapping
BaseGit2Hg ==
    [g \in GitOids |->
        CASE g = G1 -> Some(H1)
          [] g = P1 -> Some(MkId(17))
          [] g = P2 -> Some(MkId(4))
          [] OTHER -> None]

\* a repository where H1 is G1, H2 is unknown, and the objects are as given
Store(objG1, note, objN1, fmeta, objM1, manifest) ==
    [hg2git |-> [h \in HgRevs |-> IF h = H1 THEN Some(G1) ELSE None],
     git2hg |-> BaseGit2Hg,
     refs |-> [c \in Committish |->
                  CASE c = "HEAD" -> Some(G1)
                    [] c = "tip" -> Some(G2)
                    [] OTHER -> None],
     objects |-> [o \in ObjectIds |->
                  CASE o = G1 -> objG1
                    [] o = N1 -> objN1
                    [] o = M1 -> objM1
                    [] OTHER -> None],
     notes |-> [g \in GitOids |-> IF g = G1 THEN note ELSE None],
     files_meta |-> [h \in HgRevs |-> IF h = H1 THEN fmeta ELSE None],
     manifests |-> [g \in GitOids |-> IF g = G1 THEN manifest ELSE None],
     pad |-> None]

PlainStore == Store(None, None, None, None, None, None)

Args(cmd, abbrev, items, c, m, rev) ==
    [cmd |-> cmd, abbrev |-> abbrev, items |-> items,
     changeset |-> c, manifest |-> m, rev |-> rev]

\* the state before the first statement of git_cinnabar
Start(a, st) ==
    /\ pc = "parse"
    /\ args = a
    /\ store = st
    /\ out = <<>>
    /\ err = <<>>
    /\ status = None
    /\ initialized = FALSE
    /\ tornDown = FALSE
    /\ ret = None
    /\ idx = 1
    /\ loc = Locals
    /\ changeset = <<>>
    /\ patched = <<>>
    /\ last_end = 0
    /\ candidate = <<>>
    /\ iters = 0
    /\ hashes = 0

InitHg2Git ==
    \E abbrev \in AbbrevArgs, items \in SeqsUpTo(HgRevs, MaxBatch) :
        Start(Args("hg2git", abbrev, items, FALSE, FALSE, NullId), PlainStore)

InitGit2Hg ==
    \E abbrev \in AbbrevArgs, items \in SeqsUpTo(Committish, MaxBatch) :
        Start(Args("git2hg", abbrev, items, FALSE, FALSE, NullId), PlainStore)

\* `data -m` and `data -c -m`
InitManifest ==
    \E rev \in HgRevs, c \in BOOLEAN, manifest \in {None, Some(S_manifest_text)} :
        Start(Args("data", None, <<>>, c, TRUE, rev),
              Store(None, None, None, None, None, manifest))

\* `data <rev>`
InitFile ==
    \E rev \in HgRevs,
       objG1 \in {None, Some(Blob(S_content)), Some(Blob(<<>>)), Some(Commit(S_msg))},
       fmeta \in {None, Some(M1)},
       objM1 \in {None, Some(Blob(S_meta)), Some(Blob(<<>>)), Some(Commit(S_msg))} :
        Start(Args("data", None, <<>>, FALSE, FALSE, rev),
              Store(objG1, None, None, fmeta, objM1, None))

HashIds == {MkId(1 + i) : i \in 0..(HashMod - 1)}

\* the metadata notes of `data -c`: well-formed ones, and ones with a line
\* that is no "key value" pair of the six keys
MetadataNotes ==
    {MetadataBytes(<<MetaLine(K_changeset, Hex(node)), MetaLine(K_manifest, Hex(H2))>>
                   \o opt)
        : node \in HashIds,
          opt \in {<<>>,
                   <<MetaLine(K_extra, S_a1_z9), MetaLine(K_files, S_files)>>,
                   <<MetaLine(K_author, S_ann),
                     MetaLine(K_patch, PatchBytes(<<<<0, 2, S_x>>>>))>>,
                   <<MetaLine(K_patch, PatchBytes(<<<<4, 2, S_x>>>>))>>,
                   <<MetaLine(K_patch, PatchBytes(<<<<2, 999, S_x>>>>))>>,
                   <<S_bogus>>,
                   <<S_nospace>>}}
    \cup {MetadataBytes(<<MetaLine(K_manifest, Hex(H2))>>),
          MetadataBytes(<<MetaLine(K_changeset, S_x)>>),
          <<>>}

\* the commits of `data -c`: the body ends in up to MaxPad null bytes
CommitObjects ==
    {Commit(CommitBytes(parents, S_author_al, committer, S_msg \o Nuls(k)))
        : parents \in {<<>>, <<P1>>, <<P2, P1>>, <<P3>>},
          committer \in {S_author_al, S_author_bob},
          k \in 0..MaxPad}

\* `data -c`
InitChangeset ==
    \/ \E rev \in HgRevs, commit \in CommitObjects, metadata \in MetadataNotes :
          Start(Args("data", None, <<>>, TRUE, FALSE, rev),
                Store(Some(commit), Some(N1), Some(Blob(metadata)),
                      None, None, None))
    \/ \E objG1 \in {None, Some(Blob(S_content))} \cup {Some(c) : c \in CommitObjects},
          note \in {None, Some(N1)},
          objN1 \in {None, Some(Commit(S_msg)),
                     Some(Blob(MetadataBytes(
                        <<MetaLine(K_changeset, Hex(H1))>>)))} :
          Start(Args("data", None, <<>>, TRUE, FALSE, H1),
                Store(objG1, note, objN1, None, None, None))

Init == InitHg2Git \/ InitGit2Hg \/ InitManifest \/ InitFile \/ InitChangeset

Next ==
    \/ ParseArgs
    \/ InitCinnabar
    \/ Hg2GitLine
    \/ Hg2GitReturn
    \/ Git2HgLine
    \/ Git2HgReturn
    \/ DataResolve
    \/ ManifestDump
    \/ FileMeta
    \/ FileContent
    \/ CsGetNote
    \/ CsReadCommit
    \/ CsAuthorship
    \/ CsMetadataLine
    \/ CsAssemble
    \/ CsPatchBegin
    \/ CsPatchPart
    \/ CsPatchFinish
    \/ CsNode
    \/ CsLoopIter
    \/ CsLoopExit
    \/ CsWrite
    \/ DoneCinnabar
    \/ Report

Spec == Init /\ [][Next]_vars

----------------------------------------------------------------------------
(* do_data's changeset arm from a given point on, over wider inputs *)

\* do_data(rev, Changeset) about to run the statement at `at`, with the
\* locals l and the buffer buf built so far
Midway(at, l, buf, st) ==
    /\ pc = at
    /\ args = Args("data", None, <<>>, TRUE, FALSE, H1)
    /\ store = st
    /\ out = <<>>
    /\ err = <<>>
    /\ status = None
    /\ initialized = TRUE
    /\ tornDown = FALSE
    /\ ret = None
    /\ idx = 1
    /\ loc = l
    /\ changeset = buf
    /\ patched = <<>>
    /\ last_end = 0
    /\ candidate = <<>>
    /\ iters = 0
    /\ hashes = 0

\* the extra entries a stored blob is made of, in byte order
ExtraEntries ==
    <<E_a1,
      <<98, 114, 97, 110, 99, 104, 58, 98>>,              \* "branch:b"
      <<99, 108, 111, 115, 101, 58, 49>>,                 \* "close:1"
      <<114, 101, 98, 97, 115, 101, 95, 115, 111, 117, 114, 99, 101, 58, 114>>,
                                                          \* "rebase_source:r"
      <<115, 111, 117, 114, 99, 101, 58, 115>>,           \* "source:s"
      E_z9>>

\* most entries of a stored extra blob
MaxExtra == 3

\* the stored extra blobs: up to MaxExtra entries with distinct keys, sorted
ExtraBlobs ==
    {Join(SelectSeq(ExtraEntries, LAMBDA e : e \in chosen), <<NUL>>)
        : chosen \in {c \in SUBSET {ExtraEntries[i] : i \in 1..Len(ExtraEntries)}
                         : c # {} /\ Cardinality(c) <= MaxExtra}}

\* the metadata loop is over; the commit's committer differs from its author
InitExtra ==
    \E extra \in ExtraBlobs,
       committer \in {S_bob, ToHgBytes(S_author_bob)},
       body \in {S_msg, S_msg \o <<NUL>>} :
        Midway("cs_meta",
               [Locals EXCEPT !.git_obj = Some(G1),
                              !.body = body,
                              !.author = Some(S_author_al),
                              !.committer = Some(S_author_bob),
                              !.hg_author = ToHgParts(S_author_al)[1],
                              !.hg_timestamp = ToHgParts(S_author_al)[2],
                              !.hg_utcoffset = ToHgParts(S_author_al)[3],
                              !.hg_committer = Some(committer),
                              !.node = Some(H1),
                              !.manifest = H2,
                              !.extra = Some(extra)],
               <<>>, PlainStore)

NextExtra ==
    \/ CsAssemble
    \/ CsPatchBegin
    \/ CsNode
    \/ CsLoopIter
    \/ CsLoopExit
    \/ CsWrite
    \/ DoneCinnabar
    \/ Report

SpecExtra == InitExtra /\ [][NextExtra]_vars

S_digits == <<48, 49, 50, 51, 52, 53, 54, 55, 56, 57>>    \* "0123456789"
S_XY == <<88, 89>>                                        \* "XY"
S_Z == <<90>>                                             \* "Z"
S_pct_nul == <<37, 48, 48>>                               \* "%00"
S_pct_mixed == <<37, 50, 67, 37>>                         \* "%2C%"
S_01XY45Z89 == <<48, 49, 88, 89, 52, 53, 90, 56, 57>>     \* "01XY45Z89"

\* most edits of a patch
MaxEdits == 2

PatchOffsets == {2, 4, 6, 8, 11}

\* (start, end, data) edits, in and out of range, in and out of order
Edits ==
    {<<a, b, S_XY>> : a \in PatchOffsets, b \in PatchOffsets}
    \cup {<<6, 8, S_Z>>, <<8, 10, S_pct_nul>>, <<0, 0, S_pct_mixed>>,
          <<10, 10, S_pct_nul>>}

\* patches of up to MaxEdits edits, and two that are no "start,end,data" list
Patches ==
    {PatchBytes(es) : es \in SeqsUpTo(Edits, MaxEdits)}
    \cup {<<120, 44, 52, 44, 88>>, <<50, 44, 52>>}        \* "x,4,X", "2,4"

\* the baseline buffer is built; the metadata has a patch
InitPatch ==
    \E patch \in Patches :
        Midway("cs_patch",
               [Locals EXCEPT !.git_obj = Some(G1),
                              !.node = Some(H1),
                              !.patch = Some(patch)],
               S_digits, PlainStore)

NextPatch ==
    \/ CsPatchBegin
    \/ CsPatchPart
    \/ CsPatchFinish
    \/ CsNode
    \/ CsLoopIter
    \/ CsLoopExit
    \/ CsWrite
    \/ DoneCinnabar
    \/ Report

SpecPatch == InitPatch /\ [][NextPatch]_vars

S_ab == <<97, 98>>                                        \* "ab"

\* changesets as Mercurial stored them; some end in a null byte of their own
Originals == {<<>>, S_ab, S_ab \o <<NUL>>, <<NUL>>, <<97, NUL, 98>>,
              S_ab \o <<NUL, NUL>>}

ParentLists == {<<>>, <<P1>>, <<P2>>, <<P3>>, <<P1, P2>>, <<P2, P1>>,
                <<P1, P1>>, <<P1, P3>>}

AllMapped(parents) == \A i \in 1..Len(parents) : IsSome(BaseGit2Hg[parents[i]])

HgParents(parents) == [i \in 1..Len(parents) |-> Unwrap(BaseGit2Hg[parents[i]])]

\* the patched buffer is built.  Either the repository is as its creation
\* left it (the recorded hash is that of the original bytes, to which `pad`
\* null bytes were appended), or the recorded hash is any hash, or none
InitHash ==
    \E original \in Originals, k \in 0..MaxPad, parents \in ParentLists :
        \/ /\ AllMapped(parents)
           /\ Midway("cs_node",
                     [Locals EXCEPT
                         !.git_obj = Some(G1),
                         !.parents = parents,
                         !.node = Some(CandidateHash(HgParents(parents), original))],
                     original \o Nuls(k),
                     [PlainStore EXCEPT !.pad = Some(k)])
           /\ original # <<>>
        \/ \E node \in {None} \cup {Some(h) : h \in HashIds} :
              Midway("cs_node",
                     [Locals EXCEPT !.git_obj = Some(G1),
                                    !.parents = parents,
                                    !.node = node],
                     original \o Nuls(k), PlainStore)

NextHash ==
    \/ CsNode
    \/ CsLoopIter
    \/ CsLoopExit
    \/ CsWrite
    \/ DoneCinnabar
    \/ Report

SpecHash == InitHash /\ [][NextHash]_vars

\* the process keeps running: a step that can be taken is taken
FairHash == SpecHash /\ WF_vars(NextHash)

----------------------------------------------------------------------------
(* Properties: the extra/committer merge (SpecExtra) *)

S_a1_committer_bob_z9 ==
    <<97, 58, 49, 0, 99, 111, 109, 109, 105, 116, 116, 101, 114, 58, 98, 111,
      98, 0, 122, 58, 57>>                       \* "a:1\0committer:bob\0z:9"

\* the stored entries in their order, with "committer:" + value after those
\* that sort before "committer:" and before the others
ExpectedMerge(extra, value) ==
    LET entries == Split(extra, NUL)
        before == SelectSeq(entries, LAMBDA e : LexLess(e, S_committer_colon))
        after == SelectSeq(entries, LAMBDA e : ~LexLess(e, S_committer_colon))
    IN  Join(before \o <<S_committer_colon \o value>> \o after, <<NUL>>)

\* the baseline buffer around a given extra payload
BaselineWith(payload) ==
    Hex(loc.manifest) \o <<LF>> \o loc.hg_author \o <<LF>>
    \o loc.hg_timestamp \o <<SP>> \o loc.hg_utcoffset
    \o <<SP>> \o payload
    \o FilesField(loc.files) \o <<LF, LF>> \o loc.body

\* C1: with an extra blob and a committer that differs from the author, the
\* merged payload of the assembled buffer is every stored entry in its
\* stored order with exactly one "committer:<value>" entry at its sorted
\* place, joined by null bytes; "a:1\0z:9" and "bob" give
\* "a:1\0committer:bob\0z:9".
C1_MergedExtra ==
    (pc # "cs_meta" /\ IsSome(loc.extra) /\ IsSome(loc.hg_committer)) =>
        /\ changeset = BaselineWith(ExpectedMerge(Unwrap(loc.extra),
                                                  Unwrap(loc.hg_committer)))
        /\ (loc.extra = Some(S_a1_z9) /\ loc.hg_committer = Some(S_bob)) =>
               changeset = BaselineWith(S_a1_committer_bob_z9)

----------------------------------------------------------------------------
(* Properties: patch application (SpecPatch) *)

PatchParts == Split(Unwrap(loc.patch), NUL)

\* every part is "start,end,data" with decimal start and end
WellFormedPatch ==
    \A i \in 1..Len(PatchParts) :
        LET f == Split3(PatchParts[i], COMMA)
        IN  /\ IsSome(f)
            /\ IsSome(ParseUsize(Unwrap(f)[1]))
            /\ IsSome(ParseUsize(Unwrap(f)[2]))

\* the (start, end, data) edits of a well-formed patch
EditsOf ==
    [i \in 1..Len(PatchParts) |->
        LET f == Unwrap(Split3(PatchParts[i], COMMA))
        IN  <<Unwrap(ParseUsize(f[1])), Unwrap(ParseUsize(f[2])), f[3]>>]

\* 0 <= start_1 <= end_1 <= start_2 <= ... <= end_n <= len(B)
OrderedEdits(B, es) ==
    \A i \in 1..Len(es) :
        /\ (IF i = 1 THEN 0 ELSE es[i - 1][2]) <= es[i][1]
        /\ es[i][1] <= es[i][2]
        /\ es[i][2] <= Len(B)

RECURSIVE SpliceAll(_, _)
\* B with each edited range replaced by its decoded data, last edit first
SpliceAll(B, es) ==
    IF es = <<>> THEN B
    ELSE LET e == es[Len(es)]
         IN  SpliceAll(Take(B, e[1]) \o PercentDecode(e[3]) \o Drop(B, e[2]),
                       Take(es, Len(es) - 1))

Panicked == pc = "exit" /\ IsNone(ret) /\ status \in {Some(s) : s \in PanicStatuses}

\* the patch loop is over and has swapped the buffers
PatchDone ==
    \/ pc \in {"cs_node", "cs_loop", "cs_write", "done", "report"}
    \/ pc = "exit" /\ ~Panicked

\* the baseline buffer: `changeset` until the swap, `patched` after it
Baseline == IF PatchDone THEN patched ELSE changeset

\* C4: for an ordered, non-overlapping edit list within the baseline B, the
\* patched buffer is B with each range start_i..end_i replaced by the
\* percent-decoded data_i and every other byte kept once, in order, and the
\* patch loop does not fail; "0123456789" with (2,4,"XY"),(6,8,"Z") gives
\* "01XY45Z89".
C4_PatchApplied ==
    (IsSome(loc.patch) /\ WellFormedPatch /\ OrderedEdits(Baseline, EditsOf)) =>
        /\ ~Panicked
        /\ PatchDone => changeset = SpliceAll(patched, EditsOf)
        /\ (PatchDone /\ patched = S_digits
              /\ EditsOf = <<<<2, 4, S_XY>>, <<6, 8, S_Z>>>>) =>
               changeset = S_01XY45Z89

\* C4 witness: the example has been patched and written
C4_Witness ==
    /\ pc = "exit"
    /\ patched = S_digits
    /\ loc.patch = Some(PatchBytes(<<<<2, 4, S_XY>>, <<6, 8, S_Z>>>>))
    /\ out = S_01XY45Z89

\* C5: an edit list with an edit that breaks cursor <= start <= end <=
\* len(baseline) (or that is no edit list at all) fails the request, and no
\* changeset bytes reach the output.
C5_MalformedPatchFails ==
    (IsSome(loc.patch) /\ ~(WellFormedPatch /\ OrderedEdits(Baseline, EditsOf))) =>
        /\ out = <<>>
        /\ pc = "exit" => status \notin {None, Some(0)}

----------------------------------------------------------------------------
(* Properties: the hash-verification loop (SpecHash) *)

\* the recorded parents' hg ids in two slots: none, one before the null id,
\* or two in byte order
ExpectedSlots(hs) ==
    CASE Len(hs) = 0 -> <<NullId, NullId>>
      [] Len(hs) = 1 -> <<hs[1], NullId>>
      [] OTHER -> IF LexLess(hs[2], hs[1]) THEN <<hs[2], hs[1]>>
                  ELSE <<hs[1], hs[2]>>

\* the candidate hashes to the recorded `changeset` hash
Recorded(bytes) ==
    LET slots == ExpectedSlots(HgParents(loc.parents))
    IN  HgHash(slots[1] \o slots[2] \o bytes) = Unwrap(loc.node)

\* the patched buffer without its last j bytes
Cand(j) == Take(changeset, Len(changeset) - j)

\* a candidate the loop stops at
Accept(j) == ~EndsInNul(Cand(j)) \/ Recorded(Cand(j))

Emitted == pc \in {"done", "report", "exit"} /\ ret = <<"Ok">>

\* C2: the loop strips a trailing null byte only while the candidate's hash
\* differs from the recorded hash and the candidate ends in a null byte: the
\* emitted buffer is the longest of the patched buffer and its versions
\* without trailing null bytes that hashes to the recorded hash or does not
\* end in a null byte, and is the patched buffer itself if that already
\* hashes to the recorded hash.
C2_LongestCandidate ==
    /\ pc \in {"cs_loop", "cs_write"} =>
          \E j \in 0..TrailingNuls(changeset) :
              /\ candidate = Cand(j)
              /\ \A i \in 0..(j - 1) : ~Accept(i)
    /\ Emitted =>
          \E j \in 0..TrailingNuls(changeset) :
              /\ out = Cand(j)
              /\ Accept(j)
              /\ \A i \in 0..(j - 1) : ~Accept(i)
    /\ (Emitted /\ AllMapped(loc.parents) /\ Recorded(changeset)) =>
          out = changeset

\* C2 witness: stripping stopped at a hash match, on a buffer that still
\* ends in a null byte
C2_Witness ==
    /\ Emitted
    /\ Len(out) < Len(changeset)
    /\ EndsInNul(out)
    /\ Len(loc.parents) = 2

\* `let mut changeset = &changeset[..]` has run
LoopEntered == pc \in {"cs_loop", "cs_write"} \/ Emitted \/ iters > 0

\* the bytes the loop has removed
Stripped == IF LoopEntered THEN Len(changeset) - Len(candidate) ELSE 0

\* C3 as stated: the loop ends within k iterations, k the number of null
\* bytes appended at creation; without trailing null bytes there is no
\* iteration, no hash and no byte removed.
C3_AtMostPadIterations ==
    /\ IsSome(store.pad) => iters <= Unwrap(store.pad)
    /\ TrailingNuls(changeset) = 0 => iters = 0 /\ hashes = 0 /\ Stripped = 0

C3_Bounds ==
    /\ iters <= TrailingNuls(changeset)
    /\ hashes <= iters
    /\ Stripped <= iters
    /\ IsSome(store.pad) =>
          /\ iters <= Unwrap(store.pad) + 1
          /\ Stripped <= Unwrap(store.pad)
    /\ TrailingNuls(changeset) = 0 => iters = 0 /\ hashes = 0 /\ Stripped = 0

\* C3 amended: the loop always ends, within k + 1 iterations and with at
\* most k bytes removed (the extra iteration is the one that finds the hash
\* match on original bytes that themselves end in a null byte); it never
\* runs more iterations than the buffer has trailing null bytes; without
\* trailing null bytes there is no iteration, no hash and no byte removed.
C3_PadBoundsStripping ==
    /\ []C3_Bounds
    /\ (pc = "cs_loop") ~> (pc \in {"cs_write", "exit"})

\* C3 witness: all k > 0 appended bytes were removed, and one more iteration
\* found the match
C3_Witness ==
    /\ pc = "cs_write"
    /\ IsSome(store.pad)
    /\ Unwrap(store.pad) > 0
    /\ Stripped = Unwrap(store.pad)
    /\ iters = Unwrap(store.pad) + 1

----------------------------------------------------------------------------
(* Properties: hg2git and git2hg (Spec) *)

Translating == args.cmd \in {"hg2git", "git2hg"}

\* the target of the i-th input, None when it has no mapping or does not
\* resolve to a commit
Target(i) ==
    IF args.cmd = "hg2git" THEN ToGit(args.items[i])
    ELSE LET oid == ResolveCommittish(args.items[i])
         IN  IF IsSome(oid) THEN ToHg(Unwrap(oid)) ELSE None

\* the line of the i-th input at width w
ExpectedLine(i, w) ==
    (IF IsSome(Target(i)) THEN Take(Hex(Unwrap(Target(i))), w) ELSE Zeros(w))
    \o <<LF>>

ExpectedLines(n, w) == Concat([i \in 1..n |-> ExpectedLine(i, w)])

\* C6: hg2git and git2hg print one line per input, in input order, an
\* unmapped or unresolvable input giving a line of `width` zeros, and return
\* success whatever the mix of inputs.
C6_OneLinePerInput ==
    (Translating /\ ArgsOk) =>
        /\ pc = args.cmd =>
               out = ExpectedLines(idx - 1, AbbrevWidth(args.abbrev))
        /\ pc \in {"done", "report", "exit"} =>
               /\ out = ExpectedLines(Len(args.items), AbbrevWidth(args.abbrev))
               /\ ret = <<"Ok">>
        /\ pc = "exit" => status = Some(0) /\ tornDown /\ err = <<>>

\* C6 witness: a batch of an unresolvable and a resolvable committish is done
C6_Witness ==
    /\ pc = "exit"
    /\ args.cmd = "git2hg"
    /\ args.items = <<"nope", "HEAD">>
    /\ args.abbrev = Some(<<S_3>>)
    /\ out = <<48, 48, 48, LF>> \o Take(Hex(H1), 3) \o <<LF>>
    /\ status = Some(0)

\* the printed lines
OutLines ==
    LET parts == Split(out, LF)
    IN  Take(parts, Len(parts) - 1)

\* the canonical 40-digit line of the i-th input
FullLine(i) ==
    IF args.cmd = "hg2git" THEN Hg2GitHex(args.items[i])
    ELSE Git2HgHex(args.items[i])

\* `--abbrev` came with a value
Supplied == IsSome(args.abbrev) /\ Unwrap(args.abbrev) # <<>>

SuppliedValue == ParseUsize(Unwrap(args.abbrev)[1])

\* no value, or one in 3..40
Accepted ==
    Supplied => /\ IsSome(SuppliedValue)
                /\ Unwrap(SuppliedValue) >= MinAbbrev
                /\ Unwrap(SuppliedValue) <= FullHex

\* every printed line is the first w digits of the 40-digit rendering, and
\* a rejected value ends the process before anything runs
WidthIs(w) ==
    Translating =>
        IF Accepted
        THEN /\ \A i \in 1..Len(OutLines) :
                    /\ Len(OutLines[i]) = w
                    /\ Len(FullLine(i)) = FullHex
                    /\ OutLines[i] = Take(FullLine(i), w)
             /\ pc = "exit" => Len(OutLines) = Len(args.items)
        ELSE /\ out = <<>>
             /\ ~initialized
             /\ pc = "exit" => status = Some(ExitFailure)

\* C7 as stated: the width is 12 when the caller gives none, and else the
\* given value, accepted only in 3..40; every line has exactly that many
\* characters and is a prefix of the 40-digit rendering.
C7_WidthDefaults12 ==
    WidthIs(IF Supplied THEN Unwrap(SuppliedValue) ELSE DefaultAbbrev)

\* C7 amended: the width is 40 without `--abbrev`, 12 with `--abbrev` and no
\* value, and else the given value, accepted only in 3..40 (any other value
\* is rejected at argument parsing); every line has exactly that many
\* characters and is a prefix of the 40-digit rendering.
C7_WidthByFlag ==
    WidthIs(IF Supplied THEN Unwrap(SuppliedValue)
            ELSE IF IsSome(args.abbrev) THEN DefaultAbbrev
            ELSE FullHex)

\* C7 witness: without `--abbrev`, two lines of 40 digits were printed
C7_Witness ==
    /\ pc = "exit"
    /\ Translating
    /\ IsNone(args.abbrev)
    /\ Len(OutLines) = 2
    /\ \A i \in 1..2 : Len(OutLines[i]) = FullHex

----------------------------------------------------------------------------
(* Properties: data (Spec) *)

Dumping == args.cmd = "data" /\ ArgsOk

\* the source store has no object for the mapped hash
ObjectMissing ==
    /\ IsSome(ToGit(args.rev))
    /\ IF args.manifest THEN IsNone(store.manifests[Unwrap(ToGit(args.rev))])
       ELSE IsNone(ObjectRead(Unwrap(ToGit(args.rev))))

UnknownRevision == IsNone(ToGit(args.rev)) \/ ObjectMissing

\* C8: the dump of a revision without a mapping, or whose mapped object is
\* missing, returns the error "Unknown revision: <rev>", writes nothing,
\* runs teardown, and ends with the message on stderr and a non-zero status.
C8_UnknownRevisionFails ==
    (Dumping /\ UnknownRevision) =>
        /\ out = <<>>
        /\ pc = "exit" =>
               /\ ret = <<"Err", S_unknown_revision \o Hex(args.rev)>>
               /\ tornDown
               /\ err = <<<<"msg", S_unknown_revision \o Hex(args.rev)>>>>
               /\ status = Some(ExitFailure)

\* the commit has no metadata note
NoteMissing == IsNone(store.notes[Unwrap(ToGit(args.rev))])

\* the key of a metadata line is none of the six
UnknownKey(line) ==
    IsNone(Split2(line, SP)) \/ Unwrap(Split2(line, SP))[1] \notin MetadataKeys

\* the note is a readable blob with a line of unknown key
UnknownKeyInNote ==
    LET note == store.notes[Unwrap(ToGit(args.rev))]
        o == IF IsSome(note) THEN ObjectRead(Unwrap(note)) ELSE None
    IN  /\ IsSome(o)
        /\ Unwrap(o).kind = "blob"
        /\ \E i \in 1..Len(Lines(Unwrap(o).bytes)) :
               UnknownKey(Lines(Unwrap(o).bytes)[i])

\* C9: in the changeset dump a missing metadata note, or a metadata line of
\* unknown key, makes do_data return an error (teardown runs, the status is
\* non-zero, the process does not abort) and no changeset bytes are written.
C9_CorruptIndexReturned ==
    (Dumping /\ args.changeset /\ IsSome(ToGit(args.rev))
       /\ (NoteMissing \/ UnknownKeyInNote)) =>
        /\ out = <<>>
        /\ pc = "exit" =>
               /\ Len(ret) = 2
               /\ ret[1] = "Err"
               /\ tornDown
               /\ status = Some(ExitFailure)

\* the file's own blob, when the revision resolves to a readable blob
FileBlob ==
    LET g == ToGit(args.rev)
        o == IF IsSome(g) THEN ObjectRead(Unwrap(g)) ELSE None
    IN  IF IsSome(o) /\ Unwrap(o).kind = "blob" THEN Some(Unwrap(o).bytes)
        ELSE None

\* the metadata blob, when a file-metadata note resolves to a readable blob
FileMetaBlob ==
    LET note == store.files_meta[args.rev]
        o == IF IsSome(note) THEN ObjectRead(Unwrap(note)) ELSE None
    IN  IF IsSome(o) /\ Unwrap(o).kind = "blob" THEN Some(Unwrap(o).bytes)
        ELSE None

FileDump == Dumping /\ ~args.changeset /\ ~args.manifest

\* C10: the dump of a resolvable file with a file-metadata note is exactly
\* 0x01 0x0A, the metadata blob, 0x01 0x0A, the file's content; without a
\* note it is exactly the file's content; nothing else is written.
C10_FileFraming ==
    (FileDump /\ IsSome(FileBlob) /\ pc \in {"done", "report", "exit"}) =>
        /\ IsSome(FileMetaBlob) =>
               out = <<1, 10>> \o Unwrap(FileMetaBlob) \o <<1, 10>>
                     \o Unwrap(FileBlob)
        /\ IsNone(store.files_meta[args.rev]) => out = Unwrap(FileBlob)
        /\ (IsSome(FileMetaBlob) \/ IsNone(store.files_meta[args.rev])) =>
               ret = <<"Ok">>

\* C10 witness: a file with metadata was dumped
C10_Witness ==
    /\ pc = "exit"
    /\ FileDump
    /\ status = Some(0)
    /\ FileMetaBlob = Some(S_meta)
    /\ out = <<1, 10>> \o S_meta \o <<1, 10>> \o S_content

============================================================================
